---- MODULE Spec2Model ----
(***************************************************************************)
(* A model of the Hitori solver: the union-find structure                  *)
(* (hitori/union_find.py), the immutable board and the search pipeline     *)
(* (hitori/board.py).                                                      *)
(*                                                                         *)
(* Coordinates are pairs <<x, y>>, 0-based as in the source.  A board is   *)
(* the tuple of its lines, each line a sequence of one-character strings.  *)
(***************************************************************************)
EXTENDS Integers, Sequences, FiniteSets, TLC

VARIABLES
    leaders,    \* UnionFind.leaders: key -> <<leader, size>>
    passed,     \* reference: the partition generated by every pair passed to union
    joined,     \* reference: the partition generated by the pairs of tracked keys
    ufop,       \* the UnionFind method called last
    recv,       \* the Hitori instance blank is called on
    pre,        \* the lines of that instance before the last call of blank
    res,        \* what the last call of blank returned (NoBoard: nothing)
    raised,     \* whether the last call of blank raised ValueError
    arg,        \* the coordinate given to the last call of blank
    input,      \* the board given to solve
    stack,      \* pending stage invocations <<board, index into gens>>, first on top
    answers,    \* the set collect_candidate adds to
    cells,      \* check_connectedness: the non-blank cells still to be iterated
    some,       \* check_connectedness: some_x, some_y
    phase,      \* check_connectedness: "start", "loop", "done"
    fwd         \* check_connectedness: whether the board was passed on

ufVars == <<leaders, passed, joined, ufop>>
bdVars == <<recv, pre, res, raised, arg>>
svVars == <<input, stack, answers>>
ccVars == <<cells, some, phase, fwd>>
vars == <<leaders, passed, joined, ufop, recv, pre, res, raised, arg,
          input, stack, answers, cells, some, phase, fwd>>

(***************************************************************************)
(* Bounds                                                                  *)
(***************************************************************************)
NKeys == 4          \* size of the universe the UnionFind keys are drawn from
MaxCells == 6       \* a board has at most this many cells (width * height)

(***************************************************************************)
(* UnionFind (union_find.py)                                               *)
(***************************************************************************)

\* The leader that find reports for a key that is not tracked.
None == <<>>

\* The keys are coordinates, as in check_connectedness.
KeyUniverse == {<<x, 0>> : x \in 0..(NKeys - 1)}

\* __init__: every member is its own leader, in a class of size 1.
UFInit(members) == [m \in members |-> <<m, 1>>]

\* find's assignment leaders[p] = leaders[q].
RepointNot(ld, p, q) == ld

Repoint(ld, p, q) == [ld EXCEPT ![p] = ld[q]]

\* The while loop of find: p is the key looked at, <<q, n>> its entry.
RECURSIVE FindLoop(_, _, _, _)
FindLoop(ld, p, q, n) ==
    IF p = q
    THEN [leaders |-> ld, ret |-> <<p, n>>]
    ELSE LET ld2 == Repoint(ld, p, q)
         IN  FindLoop(ld2, q, ld2[q][1], ld2[q][2])

\* find(p): the mapping after the call and the pair returned.
Find(ld, p) ==
    IF p \notin DOMAIN ld
    THEN [leaders |-> ld, ret |-> <<None, 0>>]
    ELSE FindLoop(ld, p, ld[p][1], ld[p][2])

\* The size stored at the surviving leader by union.
MergedSizeOff(p_num, q_num) == q_num

MergedSize(p_num, q_num) == p_num + q_num

\* Whether union treats the two leaders as already joined (nothing to do).
SameLeaderNever(p_lead, q_lead) == TRUE

SameLeader(p_lead, q_lead) == ~(p_lead # q_lead)

\* union(p, q): the mapping after the call.
Union(ld, p, q) ==
    LET fp == Find(ld, p)
        fq == Find(fp.leaders, q)
        p_lead == fp.ret[1]
        p_num == fp.ret[2]
        q_lead == fq.ret[1]
        q_num == fq.ret[2]
        ld2 == fq.leaders
    IN  IF p_lead = None \/ q_lead = None
        THEN ld2
        ELSE IF ~SameLeader(p_lead, q_lead)
             THEN [ld2 EXCEPT ![p_lead] = <<q_lead, MergedSize(p_num, q_num)>>,
                              ![q_lead] = <<q_lead, MergedSize(p_num, q_num)>>]
             ELSE ld2

\* connected(p, q): the mapping after the two finds and the boolean returned.
Connected(ld, p, q) ==
    LET fp == Find(ld, p)
        fq == Find(fp.leaders, q)
    IN  [leaders |-> fq.leaders, ret |-> (fp.ret = fq.ret)]

(***************************************************************************)
(* Hitori (board.py): the immutable board                                  *)
(***************************************************************************)
BLANK == "#"

\* The symbols a puzzle is written with.
Symbols == {"1", "2", "3"}

\* No board: blank returned nothing, a variant was abandoned.
NoBoard == <<>>

\* The shapes <<width, height>> of the boards considered.
Shapes == {s \in (1..MaxCells) \X (1..MaxCells) : s[1] * s[2] <= MaxCells}

\* __init__: the boards of a shape whose cells are drawn from syms.
Boards(syms) == UNION {[1..s[2] -> [1..s[1] -> syms]] : s \in Shapes}

Width(b) == Len(b[1])

Height(b) == Len(b)

\* size()
Size(b) == <<Width(b), Height(b)>>

\* __getitem__: self.lines[y][x]
At(b, x, y) == b[y + 1][x + 1]

\* row(y)
Row(b, y) == [i \in 1..Width(b) |-> <<i - 1, y>>]

\* col(x)
Col(b, x) == [i \in 1..Height(b) |-> <<x, i - 1>>]

\* is_blank(x, y)
IsBlank(b, x, y) ==
    /\ 0 <= x /\ x < Width(b)
    /\ 0 <= y /\ y < Height(b)
    /\ At(b, x, y) = BLANK

\* The condition under which blank raises ValueError.
RaisesThree(b, x, y) ==
    IsBlank(b, x - 1, y) \/ IsBlank(b, x + 1, y) \/ IsBlank(b, x, y - 1)

Raises(b, x, y) ==
    \/ IsBlank(b, x - 1, y)
    \/ IsBlank(b, x + 1, y)
    \/ IsBlank(b, x, y - 1)
    \/ IsBlank(b, x, y + 1)

\* lines[y][:x] + BLANK + lines[y][x + 1:]
SpliceKeep(line, x) ==
    SubSeq(line, 1, x) \o <<BLANK>> \o SubSeq(line, x + 1, Len(line))

Splice(line, x) ==
    SubSeq(line, 1, x) \o <<BLANK>> \o SubSeq(line, x + 2, Len(line))

\* blank(x, y): whether it raised, the receiver's lines after the call, and
\* the instance returned.
Blank(b, x, y) ==
    IF Raises(b, x, y)
    THEN [raised |-> TRUE, self |-> b, result |-> NoBoard]
    ELSE LET lines == [b EXCEPT ![y + 1] = Splice(b[y + 1], x)]
         IN  [raised |-> FALSE, self |-> b, result |-> lines]

\* The in-range coordinates of a board.
Coords(b) == (0..(Width(b) - 1)) \X (0..(Height(b) - 1))

(***************************************************************************)
(* solve and its stages (board.py)                                         *)
(***************************************************************************)
\* len(gens): a stage per row, a stage per column, check_connectedness and
\* collect_candidate.  Stage i is gens[i]; its generators list is gens[i:].
NumStages(b) == Height(b) + Width(b) + 2

IsRowStage(b, i) == i < Height(b)

IsColStage(b, i) == Height(b) <= i /\ i < Height(b) + Width(b)

IsConnStage(b, i) == i = Height(b) + Width(b)

IsCollectStage(b, i) == i = Height(b) + Width(b) + 1

\* selector(board) of stage i: row_n(i) or col_n(i - my).
Selected(b, i) == IF i < Height(b) THEN Row(b, i) ELSE Col(b, i - Height(b))

\* counts[v]: the non-blank cells of the line that hold v, in line order.
Where(b, line, v) ==
    SelectSeq(line, LAMBDA c : ~IsBlank(b, c[1], c[2]) /\ At(b, c[1], c[2]) = v)

\* The values v with len(counts[v]) > 1.
DupValues(b, line) ==
    {v \in {At(b, line[j][1], line[j][2]) : j \in 1..Len(line)} \ {BLANK} :
        Len(Where(b, line, v)) > 1}

\* counts.items() yields the values in the order they first appear in the
\* line: the group blank_some works on is the first with more than one cell.
FirstDup(b, line) ==
    LET dup(j) == At(b, line[j][1], line[j][2]) \in DupValues(b, line)
        j0 == CHOOSE j \in 1..Len(line) : dup(j) /\ \A h \in 1..(j - 1) : ~dup(h)
    IN  At(b, line[j0][1], line[j0][2])

\* b2 = b2.blank(x2, y2): the board the variant goes on with.
RebindDropped(b2, r) == b2

Rebind(b2, r) == r.result

\* The inner loop of a variant: blank the cells cs in order; the variant is
\* abandoned (NoBoard) when a blank raises.
RECURSIVE BlankEach(_, _)
BlankEach(b2, cs) ==
    IF cs = <<>>
    THEN b2
    ELSE LET r == Blank(b2, cs[1][1], cs[1][2])
         IN  IF r.raised THEN NoBoard ELSE BlankEach(Rebind(b2, r), Tail(cs))

\* for (x, y) in where: the cells tried as the one to keep.
KeepOrderFirst(where) == <<where[1]>>

KeepOrder(where) == where

\* The boards of the variants in the order tried: keep where[k] for each k,
\* then blank them all.
Variants(b, where) ==
    LET ks == KeepOrder(where)
    IN  [k \in 1..(Len(ks) + 1) |->
            IF k <= Len(ks)
            THEN BlankEach(b, SelectSeq(where, LAMBDA c : c # ks[k]))
            ELSE BlankEach(b, where)]

\* The stage a variant's board is handed to: generators[0], the same stage.
ReentryStageNext(i) == i + 1

ReentryStage(i) == i

\* The calls blank_some makes for the group where: <<board, stage>>, in order.
Resolve(b, i, where) ==
    LET kept == SelectSeq(Variants(b, where), LAMBDA v : v # NoBoard)
    IN  [k \in 1..Len(kept) |-> <<kept[k], ReentryStage(i)>>]

\* The call a stage makes to pass its board on: generators[1], if there is one.
PassOn(b, i) ==
    IF NumStages(b) - i > 1 THEN << <<b, i + 1>> >> ELSE <<>>

\* blank_some at stage i on board b, the group chosen as the code chooses it.
BlankSome(b, i) ==
    LET line == Selected(b, i)
    IN  IF DupValues(b, line) = {}
        THEN PassOn(b, i)
        ELSE Resolve(b, i, Where(b, line, FirstDup(b, line)))

\* The non-blank cells of a board.
NonBlank(b) == {c \in Coords(b) : ~IsBlank(b, c[1], c[2])}

\* The four union calls check_connectedness makes for a cell.
UnionRowOnly(ld, c) ==
    Union(Union(ld, c, <<c[1] - 1, c[2]>>), c, <<c[1] + 1, c[2]>>)

UnionNeighbours(ld, c) ==
    LET l1 == Union(ld, c, <<c[1] - 1, c[2]>>)
        l2 == Union(l1, c, <<c[1] + 1, c[2]>>)
        l3 == Union(l2, c, <<c[1], c[2] - 1>>)
    IN  Union(l3, c, <<c[1], c[2] + 1>>)

\* The test check_connectedness makes on the size found.
ConnPassAlways(n, total) == TRUE

ConnPass(n, total) == ~(n # total)

\* One order in which the cells of a set are iterated.
RECURSIVE IterationOrder(_)
IterationOrder(S) ==
    IF S = {}
    THEN <<>>
    ELSE LET c == CHOOSE c \in S : TRUE
         IN  <<c>> \o IterationOrder(S \ {c})

RECURSIVE UnionAll(_, _)
UnionAll(ld, order) ==
    IF order = <<>> THEN ld ELSE UnionAll(UnionNeighbours(ld, order[1]), Tail(order))

\* check_connectedness: whether the board is passed on.
CheckConnectedness(b) ==
    LET cs == NonBlank(b)
        order == IterationOrder(cs)
    IN  IF Cardinality(cs) > 0
        THEN LET uf == UnionAll(UFInit(cs), order)
                 n == Find(uf, order[Len(order)]).ret[2]
             IN  ConnPass(n, Cardinality(cs))
        ELSE TRUE

(***************************************************************************)
(* The UnionFind object driven by arbitrary calls                          *)
(***************************************************************************)
\* Reference computation: the partition generated by joining p and q.
Join(part, p, q) ==
    [k \in DOMAIN part |-> IF part[k] = part[q] THEN part[p] ELSE part[k]]

UFStart ==
    /\ \E K \in SUBSET KeyUniverse : leaders = UFInit(K)
    /\ passed = [k \in KeyUniverse |-> k]
    /\ joined = [k \in KeyUniverse |-> k]
    /\ ufop = "init"
    /\ recv = NoBoard /\ pre = NoBoard /\ res = NoBoard /\ raised = FALSE /\ arg = <<>>
    /\ input = NoBoard /\ stack = <<>> /\ answers = {}
    /\ cells = {} /\ some = <<>> /\ phase = "none" /\ fwd = FALSE

DoFind(p) ==
    /\ leaders' = Find(leaders, p).leaders
    /\ ufop' = "find"
    /\ UNCHANGED <<passed, joined, bdVars, svVars, ccVars>>

DoUnion(p, q) ==
    /\ leaders' = Union(leaders, p, q)
    /\ passed' = Join(passed, p, q)
    /\ joined' = IF {p, q} \subseteq DOMAIN leaders THEN Join(joined, p, q) ELSE joined
    /\ ufop' = "union"
    /\ UNCHANGED <<bdVars, svVars, ccVars>>

DoConnected(p, q) ==
    /\ leaders' = Connected(leaders, p, q).leaders
    /\ ufop' = "connected"
    /\ UNCHANGED <<passed, joined, bdVars, svVars, ccVars>>

UFNext ==
    \/ \E p \in KeyUniverse : DoFind(p)
    \/ \E p, q \in KeyUniverse : DoUnion(p, q)
    \/ \E p, q \in KeyUniverse : DoConnected(p, q)

(***************************************************************************)
(* A board driven by arbitrary calls of blank                              *)
(***************************************************************************)
BoardStart ==
    /\ recv \in Boards({"1", "2", BLANK})
    /\ pre = recv
    /\ res = NoBoard
    /\ raised = FALSE
    /\ arg = <<>>
    /\ leaders = <<>> /\ passed = <<>> /\ joined = <<>> /\ ufop = "none"
    /\ input = NoBoard /\ stack = <<>> /\ answers = {}
    /\ cells = {} /\ some = <<>> /\ phase = "none" /\ fwd = FALSE

\* b2 = b.blank(x, y), or the ValueError it raises.
CallBlank(x, y) ==
    LET r == Blank(recv, x, y)
    IN  /\ pre' = recv
        /\ recv' = r.self
        /\ res' = r.result
        /\ raised' = r.raised
        /\ arg' = <<x, y>>
        /\ UNCHANGED <<ufVars, svVars, ccVars>>

\* b = b2: go on with the instance blank returned.
Rebound ==
    /\ res # NoBoard
    /\ res # recv
    /\ recv' = res
    /\ pre' = res
    /\ res' = NoBoard
    /\ raised' = FALSE
    /\ arg' = <<>>
    /\ UNCHANGED <<ufVars, svVars, ccVars>>

BoardNext ==
    \/ \E c \in Coords(recv) : CallBlank(c[1], c[2])
    \/ Rebound

(***************************************************************************)
(* solve: the depth-first search, one stage invocation per step            *)
(***************************************************************************)
SolveStart ==
    /\ input \in Boards(Symbols)
    /\ stack = << <<input, 0>> >>
    /\ answers = {}
    /\ leaders = <<>> /\ passed = <<>> /\ joined = <<>> /\ ufop = "none"
    /\ recv = NoBoard /\ pre = NoBoard /\ res = NoBoard /\ raised = FALSE /\ arg = <<>>
    /\ cells = {} /\ some = <<>> /\ phase = "none" /\ fwd = FALSE

TopBoard == stack[1][1]

TopStage == stack[1][2]

\* blank_some on a row.
RowStage ==
    /\ stack # <<>>
    /\ IsRowStage(TopBoard, TopStage)
    /\ stack' = BlankSome(TopBoard, TopStage) \o Tail(stack)
    /\ UNCHANGED <<input, answers, ufVars, bdVars, ccVars>>

\* blank_some on a column.
ColStage ==
    /\ stack # <<>>
    /\ IsColStage(TopBoard, TopStage)
    /\ stack' = BlankSome(TopBoard, TopStage) \o Tail(stack)
    /\ UNCHANGED <<input, answers, ufVars, bdVars, ccVars>>

\* check_connectedness.
ConnStage ==
    /\ stack # <<>>
    /\ IsConnStage(TopBoard, TopStage)
    /\ stack' = (IF CheckConnectedness(TopBoard)
                 THEN PassOn(TopBoard, TopStage)
                 ELSE <<>>) \o Tail(stack)
    /\ UNCHANGED <<input, answers, ufVars, bdVars, ccVars>>

\* collect_candidate.
CollectStage ==
    /\ stack # <<>>
    /\ IsCollectStage(TopBoard, TopStage)
    /\ answers' = answers \cup {TopBoard}
    /\ stack' = PassOn(TopBoard, TopStage) \o Tail(stack)
    /\ UNCHANGED <<input, ufVars, bdVars, ccVars>>

SolveNext == RowStage \/ ColStage \/ ConnStage \/ CollectStage

\* solve has returned.
Returned == input # NoBoard /\ stack = <<>>

(***************************************************************************)
(* solve with the group and the blanking order left open                   *)
(***************************************************************************)
\* The orders in which the cells of a group may be listed.
RECURSIVE Orders(_)
Orders(S) ==
    IF S = {}
    THEN {<<>>}
    ELSE UNION {{<<c>> \o q : q \in Orders(S \ {c})} : c \in S}

Cells(where) == {where[k] : k \in 1..Len(where)}

\* blank_some, with any duplicate group and any order of its cells.
AnyLineStage ==
    LET b == TopBoard
        i == TopStage
        line == Selected(b, i)
    IN  IF DupValues(b, line) = {}
        THEN stack' = PassOn(b, i) \o Tail(stack)
        ELSE \E v \in DupValues(b, line) :
                 \E where \in Orders(Cells(Where(b, line, v))) :
                     stack' = Resolve(b, i, where) \o Tail(stack)

RowStageAny ==
    /\ stack # <<>>
    /\ IsRowStage(TopBoard, TopStage)
    /\ AnyLineStage
    /\ UNCHANGED <<input, answers, ufVars, bdVars, ccVars>>

ColStageAny ==
    /\ stack # <<>>
    /\ IsColStage(TopBoard, TopStage)
    /\ AnyLineStage
    /\ UNCHANGED <<input, answers, ufVars, bdVars, ccVars>>

SolveAnyNext == RowStageAny \/ ColStageAny \/ ConnStage \/ CollectStage

(***************************************************************************)
(* check_connectedness, one iteration of its loop per step                 *)
(***************************************************************************)
ConnStart ==
    /\ input \in Boards({"1", BLANK})
    /\ phase = "start"
    /\ cells = {} /\ some = <<>> /\ fwd = FALSE
    /\ leaders = <<>> /\ passed = <<>> /\ joined = <<>> /\ ufop = "none"
    /\ recv = NoBoard /\ pre = NoBoard /\ res = NoBoard /\ raised = FALSE /\ arg = <<>>
    /\ stack = <<>> /\ answers = {}

\* Up to the loop: collect the cells; with none, the board is passed on.
ConnBegin ==
    /\ phase = "start"
    /\ IF Cardinality(NonBlank(input)) > 0
       THEN /\ leaders' = UFInit(NonBlank(input))
            /\ cells' = NonBlank(input)
            /\ phase' = "loop"
            /\ UNCHANGED fwd
       ELSE /\ phase' = "done"
            /\ fwd' = TRUE
            /\ UNCHANGED <<leaders, cells>>
    /\ UNCHANGED <<some, passed, joined, ufop, bdVars, svVars>>

\* One iteration: the set yields some cell not yet seen.
ConnVisit ==
    /\ phase = "loop"
    /\ \E c \in cells :
         /\ some' = c
         /\ leaders' = UnionNeighbours(leaders, c)
         /\ cells' = cells \ {c}
    /\ UNCHANGED <<phase, fwd, passed, joined, ufop, bdVars, svVars>>

\* After the loop: find the size of the class of the last cell and compare.
ConnEnd ==
    /\ phase = "loop"
    /\ cells = {}
    /\ leaders' = Find(leaders, some).leaders
    /\ fwd' = ConnPass(Find(leaders, some).ret[2], Cardinality(NonBlank(input)))
    /\ phase' = "done"
    /\ UNCHANGED <<cells, some, passed, joined, ufop, bdVars, svVars>>

ConnNext == ConnBegin \/ ConnVisit \/ ConnEnd

(***************************************************************************)
(* Properties of UnionFind                                                 *)
(***************************************************************************)
Tracked == DOMAIN leaders

\* The key reached from k by following n leader links.
RECURSIVE Walk(_, _, _)
Walk(ld, k, n) == IF n = 0 THEN k ELSE Walk(ld, ld[k][1], n - 1)

\* The key reached from k after as many links as there are keys.
RootOf(ld, k) == Walk(ld, k, Cardinality(DOMAIN ld))

\* The keys find looks at on its walk from k.
Visited(ld, k) == {Walk(ld, k, n) : n \in 0..Cardinality(DOMAIN ld)}

\* C3 as stated: connected(a, b) on tracked keys is true exactly when a and b
\* are in one component of the closure of ALL the pairs passed to union,
\* those naming an untracked key included.
C3_ConnectedIffPassedClosure ==
    \A a, b \in Tracked :
        Connected(leaders, a, b).ret <=> (passed[a] = passed[b])

\* C3 amended: connected(a, b) on tracked keys is true exactly when a and b
\* are in one component of the closure of the pairs passed to union whose
\* two keys are both tracked (a union naming an untracked key joins nothing).
C3_ConnectedIffTrackedClosure ==
    \A a, b \in Tracked :
        Connected(leaders, a, b).ret <=> (joined[a] = joined[b])

\* C3 witness: after unions, two distinct tracked keys are connected, and two
\* others that were each passed to union with the same untracked key are not.
C3_Witness ==
    /\ ufop = "union"
    /\ \E a, b \in Tracked :
         a # b /\ joined[a] = joined[b] /\ Connected(leaders, a, b).ret
    /\ \E a, c \in Tracked :
         /\ passed[a] = passed[c] /\ joined[a] # joined[c]
         /\ ~Connected(leaders, a, c).ret

\* C6: from every tracked key the leader links reach a key that is its own
\* leader, the size stored there is the number of tracked keys that reach it,
\* and find returns that key with that size.
C6_LeaderForestAndSizes ==
    \A k \in Tracked :
        LET r == RootOf(leaders, k)
            class == {j \in Tracked : RootOf(leaders, j) = r}
        IN  /\ leaders[r][1] = r
            /\ leaders[r][2] = Cardinality(class)
            /\ Find(leaders, k).ret = <<r, Cardinality(class)>>

\* C6 witness: after a find, a class of three or more keys in which some key
\* is two links away from its representative.
C6_Witness ==
    /\ ufop = "find"
    /\ \E k \in Tracked :
         /\ leaders[k][1] # RootOf(leaders, k)
         /\ leaders[RootOf(leaders, k)][2] >= 3

\* C7 as stated: after find(k) returns <<r, n>>, every key visited on the walk
\* has the entry <<r, n>>.
C7_FullCompression ==
    \A k \in Tracked :
        LET f == Find(leaders, k)
        IN  \A v \in Visited(leaders, k) : f.leaders[v] = f.ret

\* C7 amended: find halves the path.  After find(k) returns <<r, n>>, every key
\* visited on the walk holds the entry its leader held before the call (it
\* points at its former leader's leader), every other key is unchanged, and
\* <<r, n>> is the entry stored at the representative r.
C7_PathHalving ==
    \A k \in Tracked :
        LET f == Find(leaders, k)
        IN  /\ \A v \in Visited(leaders, k) : f.leaders[v] = leaders[leaders[v][1]]
            /\ \A v \in Tracked \ Visited(leaders, k) : f.leaders[v] = leaders[v]
            /\ f.ret = leaders[RootOf(leaders, k)]
            /\ f.ret[1] = RootOf(leaders, k)

\* C7 witness: after a find, a key three links away from its representative:
\* a find on it leaves it pointing at a key that is not the representative.
C7_Witness ==
    /\ ufop = "find"
    /\ \E k \in Tracked :
         /\ Walk(leaders, k, 2) # RootOf(leaders, k)
         /\ Find(leaders, k).leaders[k][1] # Find(leaders, k).ret[1]

(***************************************************************************)
(* Properties of blank                                                     *)
(***************************************************************************)
\* The in-range orthogonal neighbours of a coordinate.
Neighbours(b, c) ==
    {d \in Coords(b) :
        \/ d[2] = c[2] /\ (d[1] = c[1] + 1 \/ d[1] = c[1] - 1)
        \/ d[1] = c[1] /\ (d[2] = c[2] + 1 \/ d[2] = c[2] - 1)}

\* C4: blank(x, y) raises exactly when one of the in-range orthogonal
\* neighbours of (x, y) is blank in the receiver; when it raises, nothing is
\* returned and the receiver is as it was.
C4_RaisesIffBlankNeighbour ==
    arg # <<>> =>
        /\ raised <=> (\E d \in Neighbours(pre, arg) : pre[d[2] + 1][d[1] + 1] = BLANK)
        /\ raised => (recv = pre /\ res = NoBoard)

\* C4 witness: blank raised on a corner cell of a board with two lines, and
\* the only blank neighbour is the one below it.
C4_Witness ==
    /\ raised
    /\ arg = <<0, 0>>
    /\ Height(pre) >= 2 /\ Width(pre) >= 2
    /\ pre[2][1] = BLANK /\ pre[1][2] # BLANK

\* C5: when blank(x, y) succeeds, the board returned has the size of the
\* receiver (every line keeps its length), is blank at (x, y), equals the
\* receiver at every other cell, and the receiver is as it was.
C5_BlankChangesOneCell ==
    (arg # <<>> /\ ~raised) =>
        /\ Size(res) = Size(pre)
        /\ \A i \in 1..Height(pre) : Len(res[i]) = Len(pre[i])
        /\ IsBlank(res, arg[1], arg[2])
        /\ \A c \in Coords(pre) \ {arg} : At(res, c[1], c[2]) = At(pre, c[1], c[2])
        /\ recv = pre

\* C5 witness: blank succeeded on a non-blank cell that is not the last of its
\* line, on a board that already had a blank cell.
C5_Witness ==
    /\ arg # <<>> /\ ~raised
    /\ res # pre
    /\ arg[1] + 1 < Width(pre)
    /\ \E c \in Coords(pre) : IsBlank(pre, c[1], c[2])

(***************************************************************************)
(* Properties of solve                                                     *)
(***************************************************************************)
\* Rule (b): no row and no column has two non-blank cells with one symbol.
NoDuplicates(b) ==
    \A c, d \in NonBlank(b) :
        (c # d /\ (c[1] = d[1] \/ c[2] = d[2])) => At(b, c[1], c[2]) # At(b, d[1], d[2])

\* Rule (a): no two blank cells are orthogonally adjacent.
NoAdjacentBlanks(b) ==
    \A c \in Coords(b) \ NonBlank(b) :
        \A d \in Neighbours(b, c) : d \in NonBlank(b)

\* The non-blank cells reachable from those of S by orthogonal steps.
RECURSIVE Region(_, _)
Region(b, S) ==
    LET T == S \cup {d \in NonBlank(b) : \E c \in S : d \in Neighbours(b, c)}
    IN  IF T = S THEN S ELSE Region(b, T)

\* Rule (c): the non-blank cells form one region (none at all counts as one).
OneRegion(b) ==
    \/ NonBlank(b) = {}
    \/ Region(b, {CHOOSE c \in NonBlank(b) : TRUE}) = NonBlank(b)

Rules(b) == NoDuplicates(b) /\ NoAdjacentBlanks(b) /\ OneRegion(b)

\* The board b with the cells of X blanked.
Blanked(b, X) ==
    [y \in 1..Height(b) |->
        [x \in 1..Width(b) |-> IF <<x - 1, y - 1>> \in X THEN BLANK ELSE b[y][x]]]

\* Every cell of X shares its symbol with a cell of its row or column that is
\* not in X.
Needed(b, X) ==
    \A c \in X :
        \E d \in Coords(b) \ X :
            /\ c[1] = d[1] \/ c[2] = d[2]
            /\ At(b, d[1], d[2]) = At(b, c[1], c[2])

\* C1: every board solve collects satisfies the three rules at once.
C1_AnswersSatisfyRules ==
    \A b \in answers : Rules(b)

\* C1 witness: solve has returned a board with blanked cells, from an input
\* of at least two rows and two columns.
C1_Witness ==
    /\ Returned
    /\ Width(input) >= 2 /\ Height(input) >= 2
    /\ \E b \in answers : Cardinality(NonBlank(b)) + 2 <= Cardinality(Coords(b))

C8_PassedOnIffOneRegion ==
    phase = "done" => (fwd <=> OneRegion(input))

\* C8 witness: a board with three or more non-blank cells in two regions was
\* not passed on.
C8_Witness ==
    /\ phase = "done" /\ ~fwd
    /\ Cardinality(NonBlank(input)) >= 3
    /\ Height(input) >= 2

\* The number of blank cells.
BlankCount(b) == Cardinality(Coords(b) \ NonBlank(b))

\* The calls made by the step: the frames put on the stack.
Pushed == SubSeq(stack', 1, Len(stack') - Len(stack) + 1)

\* C9, each invocation: a row or column stage either passes the board it got
\* to the next stage, or calls its own stage with boards that have strictly
\* more blank cells.
C9_StageProgress ==
    [][(stack # <<>> /\ TopStage < Height(TopBoard) + Width(TopBoard)) =>
          \/ Pushed = << <<TopBoard, TopStage + 1>> >>
          \/ \A k \in 1..Len(Pushed) :
                /\ Pushed[k][2] = TopStage
                /\ BlankCount(Pushed[k][1]) > BlankCount(TopBoard)]_vars

\* C9: solve terminates, each row or column stage invocation making progress.
C9_Terminates ==
    C9_StageProgress /\ <>(stack = <<>>)

\* C9 witness: solve has returned after a stage called itself: the input had
\* a duplicate in its first row and some board was collected.
C9_Witness ==
    /\ Returned
    /\ DupValues(input, Row(input, 0)) # {}
    /\ answers # {}

\* The set solve collects from stage i on board b, with the code's choices.
RECURSIVE Collected(_, _)
Collected(b, i) ==
    IF IsCollectStage(b, i)
    THEN {b}
    ELSE IF IsConnStage(b, i)
    THEN (IF CheckConnectedness(b) THEN Collected(b, i + 1) ELSE {})
    ELSE LET calls == BlankSome(b, i)
         IN  UNION {Collected(calls[k][1], calls[k][2]) : k \in 1..Len(calls)}

\* C10: whichever duplicate group each stage works on and in whichever order
\* it blanks the cells of a group, solve returns the set it returns with the
\* code's own choices.
C10_ResultIndependentOfChoices ==
    Returned => answers = Collected(input, 0)

\* C10 witness: solve has returned boards for an input whose first row has
\* two duplicate groups.
C10_Witness ==
    /\ Returned
    /\ Cardinality(DupValues(input, Row(input, 0))) >= 2
    /\ answers # {}

SpecUF == UFStart /\ [][UFNext]_vars

SpecBoard == BoardStart /\ [][BoardNext]_vars

Spec == SolveStart /\ [][SolveNext]_vars

\* solve is one thread running to completion: a pending call is made.  This
\* is WF_vars(SolveNext), that is []<>~ENABLED <<SolveNext>>_vars \/
\* []<><<SolveNext>>_vars, with the enabling condition written out: a call can
\* be made exactly when the stack is not empty.
CallsAreMade == []<>(stack = <<>>) \/ []<><<SolveNext>>_vars

SpecLive == SolveStart /\ [][SolveNext]_vars /\ CallsAreMade

SpecAnyOrder == SolveStart /\ [][SolveAnyNext]_vars

SpecConn == ConnStart /\ [][ConnNext]_vars

====
